---- MODULE Spec2Model ----
(***************************************************************************)
(* Model of the expense tracker's persistence store (www/js/db.js), of the *)
(* UI handlers that call it (www/js/ui.js) and of its service worker.      *)
(*                                                                         *)
(* The three IndexedDB object stores are functions from primary key to     *)
(* record.  Every asynchronous store method is a call record that moves    *)
(* through the method's transactions, one transaction per step, so that    *)
(* overlapping calls interleave exactly where the code awaits.             *)
(* Amounts are counted in hundredths; text that the code only stores is a  *)
(* string, text that the code transforms is a sequence of characters.      *)
(***************************************************************************)
EXTENDS Integers, Sequences, FiniteSets, TLC

VARIABLES
    db,          \* "closed" before ExpenseDB.init resolved, "open" after
    parents,     \* object store 'parents'    : id -> Group record
    entries,     \* object store 'entries'    : id -> Entry record
    categories,  \* object store 'categories' : id -> Category record
    calls,       \* slot -> the store call issued in that slot
    ncalls,      \* number of calls issued so far
    file,        \* the backup file ExpenseUI.exportData wrote last, with the
                 \* stores it was taken from
    caches,      \* the cache storage of the origin: its buckets, oldest first
    workers,     \* release of the service worker -> where its life cycle is
    handlers     \* release -> the fetch event that release is answering

storeVars == <<db, parents, entries, categories, calls, ncalls, file>>

workerVars == <<caches, workers, handlers>>

vars == <<db, parents, entries, categories, calls, ncalls, file, caches, workers, handlers>>

----------------------------------------------------------------------------
(* Bounds of the model *)

MaxCalls == 3

(* the values Date.now() can return: the wall clock, which may stand still *)
(* between two readings and may be set back                                *)
Times == {1, 2}

(* this.version of ExpenseDB *)
version == 2

(* Identifiers and inputs *)

GroupIdOrder == <<"2024-01", "2024-02">>

GroupIds == {GroupIdOrder[i] : i \in 1..Len(GroupIdOrder)}

EntryIdOrder == <<"e1", "e2", "e3">>

EntryIds == {EntryIdOrder[i] : i \in 1..Len(EntryIdOrder)}

GroupNames == {"January"}

Slots == {"a", "b"}

Empty == <<>>

----------------------------------------------------------------------------
(* Characters and strings that the code transforms *)

UpperCase == <<"A", "B", "C", "D", "E", "F", "G", "H", "I", "J", "K", "L", "M", "N", "O", "P", "Q", "R", "S", "T", "U", "V", "W", "X", "Y", "Z">>

LowerCase == <<"a", "b", "c", "d", "e", "f", "g", "h", "i", "j", "k", "l", "m", "n", "o", "p", "q", "r", "s", "t", "u", "v", "w", "x", "y", "z">>

CodeUnits ==
    <<" ", "&", "-", ".", "0", "1", "2", "3", "4", "5", "6", "7", "8", "9", "A", "B", "C", "D", "E", "F", "G", "H", "I", "J", "K", "L", "M", "N", "O", "P", "Q", "R", "S", "T", "U", "V", "W", "X", "Y", "Z", "a", "b", "c", "d", "e", "f", "g", "h", "i", "j", "k", "l", "m", "n", "o", "p", "q", "r", "s", "t", "u", "v", "w", "x", "y", "z">>

Whitespace == {" "}

Characters == {CodeUnits[i] : i \in 1..Len(CodeUnits)}

(* the code unit of a character, as its place in CodeUnits *)
CodeOf == [c \in Characters |-> CHOOSE i \in 1..Len(CodeUnits) : CodeUnits[i] = c]

Code(c) == CodeOf[c]

LowerOf ==
    [c \in Characters |->
        IF \E i \in 1..Len(UpperCase) : UpperCase[i] = c
        THEN LowerCase[CHOOSE i \in 1..Len(UpperCase) : UpperCase[i] = c]
        ELSE c]

toLowerChar(c) == LowerOf[c]

toLowerCase(s) == [i \in 1..Len(s) |-> toLowerChar(s[i])]

RECURSIVE replaceWhitespace(_)
(* s.replace(/\s+/g, '-') : every maximal run of whitespace becomes one '-' *)
replaceWhitespace(s) ==
    IF s = <<>> THEN <<>>
    ELSE IF Head(s) \in Whitespace
         THEN IF Len(s) > 1 /\ s[2] \in Whitespace
              THEN replaceWhitespace(Tail(s))
              ELSE <<"-">> \o replaceWhitespace(Tail(s))
         ELSE <<Head(s)>> \o replaceWhitespace(Tail(s))

RECURSIVE CodeLess(_, _)
(* string order by code units, the order of IndexedDB keys *)
CodeLess(s, t) ==
    IF t = <<>> THEN FALSE
    ELSE IF s = <<>> THEN TRUE
    ELSE IF Head(s) # Head(t) THEN Code(Head(s)) < Code(Head(t))
    ELSE CodeLess(Tail(s), Tail(t))

(* the collation key of a string: its letters without case, then itself *)
collationKey(s) == [folded |-> toLowerCase(s), exact |-> s]

(* a.localeCompare(b) < 0 on collation keys: letters compare without case *)
(* first, and on a tie the lower-case letter comes first                   *)
localeLess(a, b) ==
    IF a.folded # b.folded THEN CodeLess(a.folded, b.folded) ELSE CodeLess(b.exact, a.exact)

IsDigit(c) == Code(c) >= Code("0") /\ Code(c) <= Code("9")

DigitValue(c) == Code(c) - Code("0")

RECURSIVE digitsPrefix(_)
digitsPrefix(s) ==
    IF s # <<>> /\ IsDigit(Head(s)) THEN <<Head(s)>> \o digitsPrefix(Tail(s)) ELSE <<>>

RECURSIVE digitsValue(_, _)
digitsValue(ds, acc) ==
    IF ds = <<>> THEN acc ELSE digitsValue(Tail(ds), 10 * acc + DigitValue(Head(ds)))

(* parseFloat of a decimal numeral, in hundredths: the integer digits, then *)
(* an optional point and fraction digits; what follows is ignored.  The     *)
(* inputs of the model start with a digit and have at most two decimals.    *)
parseFloatChars(s) ==
    LET int  == digitsPrefix(s)
        rest == SubSeq(s, Len(int) + 1, Len(s))
        frac == IF rest # <<>> /\ Head(rest) = "." THEN digitsPrefix(Tail(rest)) ELSE <<>>
        two  == SubSeq(frac \o <<"0", "0">>, 1, 2)
    IN  100 * digitsValue(int, 0) + digitsValue(two, 0)

(* the nine names of seedDefaultCategories *)
defaultCategories ==
    << "Food", "Transport", "Shopping", "Bills & Utilities", "Entertainment",
       "Health & Medical", "Education", "Groceries", "Others" >>

(* the names submitCategory is given: one of the seeded names, and names   *)
(* that differ in case and in the length of a run of spaces only           *)
CategoryNames == {"Food", "Gym", "gym", "Pet Care", "Pet  care"}

(* The strings the code transforms, as the sequences of their characters.  *)
(* A string stands for its characters: chars unfolds it, string folds the  *)
(* characters of a result back                                             *)
Text ==
    ("Food" :> <<"F", "o", "o", "d">>) @@
    ("Transport" :> <<"T", "r", "a", "n", "s", "p", "o", "r", "t">>) @@
    ("Shopping" :> <<"S", "h", "o", "p", "p", "i", "n", "g">>) @@
    ("Bills & Utilities" :> <<"B", "i", "l", "l", "s", " ", "&", " ", "U", "t", "i", "l", "i", "t", "i", "e", "s">>) @@
    ("Entertainment" :> <<"E", "n", "t", "e", "r", "t", "a", "i", "n", "m", "e", "n", "t">>) @@
    ("Health & Medical" :> <<"H", "e", "a", "l", "t", "h", " ", "&", " ", "M", "e", "d", "i", "c", "a", "l">>) @@
    ("Education" :> <<"E", "d", "u", "c", "a", "t", "i", "o", "n">>) @@
    ("Groceries" :> <<"G", "r", "o", "c", "e", "r", "i", "e", "s">>) @@
    ("Others" :> <<"O", "t", "h", "e", "r", "s">>) @@
    ("Gym" :> <<"G", "y", "m">>) @@
    ("gym" :> <<"g", "y", "m">>) @@
    ("Pet Care" :> <<"P", "e", "t", " ", "C", "a", "r", "e">>) @@
    ("Pet  care" :> <<"P", "e", "t", " ", " ", "c", "a", "r", "e">>) @@
    ("food" :> <<"f", "o", "o", "d">>) @@
    ("transport" :> <<"t", "r", "a", "n", "s", "p", "o", "r", "t">>) @@
    ("shopping" :> <<"s", "h", "o", "p", "p", "i", "n", "g">>) @@
    ("bills-&-utilities" :> <<"b", "i", "l", "l", "s", "-", "&", "-", "u", "t", "i", "l", "i", "t", "i", "e", "s">>) @@
    ("entertainment" :> <<"e", "n", "t", "e", "r", "t", "a", "i", "n", "m", "e", "n", "t">>) @@
    ("health-&-medical" :> <<"h", "e", "a", "l", "t", "h", "-", "&", "-", "m", "e", "d", "i", "c", "a", "l">>) @@
    ("education" :> <<"e", "d", "u", "c", "a", "t", "i", "o", "n">>) @@
    ("groceries" :> <<"g", "r", "o", "c", "e", "r", "i", "e", "s">>) @@
    ("others" :> <<"o", "t", "h", "e", "r", "s">>) @@
    ("gym" :> <<"g", "y", "m">>) @@
    ("pet-care" :> <<"p", "e", "t", "-", "c", "a", "r", "e">>) @@
    ("4.50" :> <<"4", ".", "5", "0">>) @@
    ("2" :> <<"2">>) @@
    ("3" :> <<"3">>) @@
    ("0" :> <<"0">>)

chars(str) == Text[str]

string(cs) == CHOOSE str \in DOMAIN Text : Text[str] = cs

(* parseFloat(amount) of the text of an amount, in hundredths *)
parseFloat(str) == parseFloatChars(chars(str))

(* the names a Category of the model can have *)
AllCategoryNames == {defaultCategories[i] : i \in 1..Len(defaultCategories)} \cup CategoryNames

(* the derived key of a category: name.toLowerCase().replace(/\s+/g, '-') *)
categoryIdOf ==
    [name \in AllCategoryNames |-> string(replaceWhitespace(toLowerCase(chars(name))))]

categoryId(name) == categoryIdOf[name]

AllCategoryIds == {categoryId(n) : n \in AllCategoryNames}

(* the place of a key in key order, and of a name in the order of          *)
(* localeCompare, among the keys and names of the model                    *)
keyRank ==
    [k \in AllCategoryIds |->
        Cardinality({j \in AllCategoryIds : CodeLess(chars(j), chars(k))})]

localeRank ==
    [n \in AllCategoryNames |->
        Cardinality({m \in AllCategoryNames :
            localeLess(collationKey(chars(m)), collationKey(chars(n)))})]

----------------------------------------------------------------------------
(* IndexedDB object stores *)

EmptyStore == [k \in {} |-> <<>>]

(* Mutant of storePut: the record is all that is left of the store *)
storePut_clears(store, rec) == [k \in {rec.id} |-> rec]

(* IDBObjectStore.put : insert or overwrite the record under its key *)
storePut(store, rec) ==
    [k \in DOMAIN store \cup {rec.id} |-> IF k = rec.id THEN rec ELSE store[k]]

(* Mutant of storeAdd: put in place of add, which overwrites *)
storeAdd_overwrites(store, rec) == [ok |-> TRUE, store |-> storePut(store, rec)]

(* IDBObjectStore.add : fails with ConstraintError when the key exists *)
storeAdd(store, rec) ==
    IF rec.id \in DOMAIN store
    THEN [ok |-> FALSE, store |-> store]
    ELSE [ok |-> TRUE, store |-> storePut(store, rec)]

(* Mutant of categoryAdd: put in place of add, which overwrites *)
categoryAdd_overwrites(store, rec) == [ok |-> TRUE, store |-> storePut(store, rec)]

(* add to 'categories', whose index on name is unique *)
categoryAdd(store, rec) ==
    IF \E k \in DOMAIN store : k = rec.id \/ store[k].name = rec.name
    THEN [ok |-> FALSE, store |-> store]
    ELSE [ok |-> TRUE, store |-> storePut(store, rec)]

(* IDBObjectStore.delete *)
storeDelete(store, id) == [k \in DOMAIN store \ {id} |-> store[k]]

(* IDBObjectStore.get : the record in a one-element sequence, or undefined *)
undefined == <<>>

storeGet(store, id) == IF id \in DOMAIN store THEN <<store[id]>> ELSE undefined

(* Array.prototype.sort, which is stable, for a comparator that compares  *)
(* Key(a) and Key(b) with Less                                             *)
sort(recs, Key(_), Less(_, _)) ==
    LET n == Len(recs)
        keys == [i \in 1..n |-> Key(recs[i])]
        rank == [i \in 1..n |-> 1 + Cardinality({j \in 1..n :
                    Less(keys[j], keys[i]) \/ (~Less(keys[i], keys[j]) /\ j < i)})]
    IN  [p \in 1..n |-> recs[CHOOSE i \in 1..n : rank[i] = p]]

(* getAll in the order of an explicit key sequence *)
getAllInOrder(store, order) ==
    LET present == SelectSeq(order, LAMBDA k : k \in DOMAIN store)
    IN  [i \in 1..Len(present) |-> store[present[i]]]

(* the keys of the 'categories' store in key order *)
categoryKeyOrder(store) ==
    LET keys == DOMAIN store
        n    == Cardinality(keys)
    IN  [p \in 1..n |->
            CHOOSE k \in keys : Cardinality({j \in keys : keyRank[j] < keyRank[k]}) = p - 1]

dateOf(e) == e.date

createdAtOf(r) == r.createdAt

nameOf(c) == localeRank[c.name]

Descending(a, b) == a > b

Ascending(a, b) == a < b

(* ExpenseDB.getAllParents *)
getAllParents(ps) == sort(getAllInOrder(ps, GroupIdOrder), createdAtOf, Descending)

(* ExpenseDB.getParent *)
getParent(ps, id) == storeGet(ps, id)

(* Mutant of getEntriesByParent: getAll() without the index key *)
getEntriesByParent_all(es, parentId) ==
    sort(getAllInOrder(es, EntryIdOrder), dateOf, Descending)

(* ExpenseDB.getEntriesByParent *)
getEntriesByParent(es, parentId) ==
    sort(SelectSeq(getAllInOrder(es, EntryIdOrder), LAMBDA e : e.parentId = parentId),
         dateOf, Descending)

(* ExpenseDB.getEntry *)
getEntry(es, id) == storeGet(es, id)

(* ExpenseDB.getCategories *)
getCategories(cs) == sort(getAllInOrder(cs, categoryKeyOrder(cs)), nameOf, Ascending)

RECURSIVE reduceAmount(_, _)
(* entries.reduce((sum, entry) => sum + entry.amount, 0) *)
reduceAmount(list, sum) ==
    IF list = <<>> THEN sum ELSE reduceAmount(Tail(list), sum + Head(list).amount)

total(es, parentId) == reduceAmount(getEntriesByParent(es, parentId), 0)

(* ExpenseDB.generateMonthYearId : the month of the clock; the clock's     *)
(* first instant lies in the first month, every later one in the second    *)
generateMonthYearId(t) == IF t <= 1 THEN GroupIdOrder[1] ELSE GroupIdOrder[2]

(* ExpenseDB.generateUUID : a token that no stored Entry has *)
generateUUID(es) == EntryIds \ DOMAIN es

----------------------------------------------------------------------------
(* Inputs of the operations *)

(* description, amount, category and date as the entry form hands them on; *)
(* date 0 stands for an omitted date                                       *)
EntryInputs ==
    { [description |-> "Coffee", amount |-> "4.50", category |-> "Food", date |-> 0],
      [description |-> "Bus", amount |-> "2", category |-> "", date |-> 1] }

(* the partial fields of updateEntry: keys names the fields that are given *)
EntryUpdates ==
    { [keys |-> {"description", "amount", "category", "date"}, parentId |-> "",
       description |-> "Tea", amount |-> "3", category |-> "Food", date |-> 1],
      [keys |-> {"amount"}, parentId |-> "",
       description |-> "", amount |-> "2", category |-> "", date |-> 0] }
    \cup { [keys |-> {"parentId"}, parentId |-> g,
            description |-> "", amount |-> "0", category |-> "", date |-> 0] : g \in GroupIds }

CategoryIds == {categoryId(n) : n \in CategoryNames}

----------------------------------------------------------------------------
(* Calls: the promise a store method returns and the locals of its body *)

NoLocals == [parentId |-> "", total |-> 0, list |-> <<>>, original |-> undefined]

(* seq, overlapped and pre are history: the number of the call, whether   *)
(* another call was in flight while it ran, and the stores it started on   *)
NoCall ==
    [op |-> "none", status |-> "idle", pc |-> "done", error |-> "",
     arg |-> <<>>, loc |-> NoLocals, value |-> <<>>,
     seq |-> 0, overlapped |-> FALSE, pre |-> <<>>]

Stores == [parents |-> parents, entries |-> entries, categories |-> categories]

(* a call whose promise is pending and whose body has statements left *)
Running(c) == c.status = "pending" /\ c.pc # "hung"

(* the promise will never change again: settled, or pending with no        *)
(* continuation left that could settle it                                  *)
Finished(c) == ~Running(c)

Begin(op, arg, pc, loc) ==
    [op |-> op, status |-> "pending", pc |-> pc, error |-> "",
     arg |-> arg, loc |-> loc, value |-> <<>>,
     seq |-> ncalls + 1, overlapped |-> \E x \in Slots : Running(calls[x]), pre |-> Stores]

resolve(c, value) ==
    [c EXCEPT !.status = "resolved", !.pc = "done", !.value = value, !.loc = NoLocals]

reject(c, error) ==
    [c EXCEPT !.status = "rejected", !.pc = "done", !.error = error, !.loc = NoLocals]

(* an async callback threw after its await: the rejection belongs to the   *)
(* callback's own promise, which nobody holds, and the promise of the      *)
(* method stays pending                                                    *)
unhandledRejection(c, error) ==
    [c EXCEPT !.pc = "hung", !.error = error, !.loc = NoLocals]

(* a call may be issued in slot s *)
CanStart(s) == db = "open" /\ ncalls < MaxCalls /\ Finished(calls[s])

(* the pool of identifiers has one left for every call that will take one *)
TokenLeft ==
    Cardinality(EntryIds \ DOMAIN entries)
        > Cardinality({s \in Slots : Running(calls[s]) /\ calls[s].pc = "add"})

(* the slot a new call takes: "a", or "b" while the call of "a" is in flight *)
FreeSlot(s) == IF Finished(calls["a"]) THEN s = "a" ELSE s = "b"

(* no call is in flight *)
Quiet == \A s \in Slots : Finished(calls[s])

Issue(s, c) ==
    /\ calls' = [x \in Slots |->
                    IF x = s THEN c
                    ELSE IF Running(calls[x]) THEN [calls[x] EXCEPT !.overlapped = TRUE]
                    ELSE calls[x]]
    /\ ncalls' = ncalls + 1

----------------------------------------------------------------------------
(* Service worker: the cache storage, the releases and their fetch events *)

(* the version tag of the file, and the tags in the order of release: the  *)
(* file as it is, and the file as its next release deploys it, with the    *)
(* tag stepped and the same three handlers                                 *)
CACHE_NAME == "expense-tracker-v1"

ReleaseOrder == <<CACHE_NAME, "expense-tracker-v2">>

Releases == {ReleaseOrder[i] : i \in 1..Len(ReleaseOrder)}

ASSETS_TO_CACHE ==
    << "/", "/index.html", "/css/styles.css", "/js/db.js", "/js/ui.js", "/js/app.js",
       "/icons/icon-192.png", "/icons/icon-512.png", "/manifest.json",
       "https://fonts.googleapis.com/css2?family=Inter:wght@400;500;600;700&display=swap" >>

Manifest == {ASSETS_TO_CACHE[i] : i \in 1..Len(ASSETS_TO_CACHE)}

(* the requests a page sends: an asset of the manifest and a font file the *)
(* font stylesheet names, which the manifest does not hold                 *)
Requests == {"/index.html", "https://fonts.gstatic.com/s/inter/v13/inter.woff2"}

(* what the network does with a request: a response with a status, or no   *)
(* response at all                                                         *)
Statuses == {200, 404}

NetworkOutcomes ==
    {[failed |-> FALSE, status |-> st] : st \in Statuses} \cup {[failed |-> TRUE, status |-> 0]}

Response(url, status) == [url |-> url, status |-> status]

(* caches.keys(): the names of the buckets, oldest first *)
cachesKeys(cs) == [i \in 1..Len(cs) |-> cs[i].name]

cachesHas(cs, name) == \E i \in 1..Len(cs) : cs[i].name = name

(* caches.open(name): the bucket is created, empty, when there is none *)
cachesOpen(cs, name) ==
    IF cachesHas(cs, name) THEN cs ELSE Append(cs, [name |-> name, entries |-> EmptyStore])

(* caches.delete(name) *)
cachesDelete(cs, name) == SelectSeq(cs, LAMBDA b : b.name # name)

(* the entries of the bucket of a name; none when there is no such bucket *)
bucket(cs, name) ==
    IF cachesHas(cs, name) THEN cs[CHOOSE i \in 1..Len(cs) : cs[i].name = name].entries
    ELSE EmptyStore

(* cache.put(request, response) on the bucket of a name *)
cachePut(cs, name, url, response) ==
    [i \in 1..Len(cs) |->
        IF cs[i].name = name
        THEN [cs[i] EXCEPT !.entries =
                 [u \in DOMAIN @ \cup {url} |-> IF u = url THEN response ELSE @[u]]]
        ELSE cs[i]]

RECURSIVE cachesMatch(_, _)
(* caches.match(request): the response of the first bucket, oldest first,  *)
(* that holds the request, whatever the name of the bucket                 *)
cachesMatch(cs, url) ==
    IF cs = <<>> THEN undefined
    ELSE IF url \in DOMAIN Head(cs).entries THEN <<Head(cs).entries[url]>>
    ELSE cachesMatch(Tail(cs), url)

RECURSIVE putAll(_, _, _)
(* the batch of puts that ends cache.addAll *)
putAll(cs, name, urls) ==
    IF urls = <<>> THEN cs
    ELSE putAll(cachePut(cs, name, Head(urls), Response(Head(urls), 200)), name, Tail(urls))

(* Mutant of cacheAddAll: the requests that were fetched are stored *)
cacheAddAll_partial(cs, name, urls, failing) ==
    [ok |-> \A i \in 1..Len(urls) : urls[i] \notin failing,
     caches |-> putAll(cs, name, SelectSeq(urls, LAMBDA u : u \notin failing))]

(* cache.addAll(requests): every request is fetched, and only when every   *)
(* fetch gave an ok response are the responses stored, all at once         *)
cacheAddAll(cs, name, urls, failing) ==
    IF \A i \in 1..Len(urls) : urls[i] \notin failing
    THEN [ok |-> TRUE, caches |-> putAll(cs, name, urls)]
    ELSE [ok |-> FALSE, caches |-> cs]

(* a release before it is registered, and a release with no fetch event *)
NoWorker ==
    [state |-> "parsed", pc |-> "none", skipWaiting |-> FALSE, claimed |-> FALSE,
     fetched |-> {}, keys |-> {}, deleted |-> {}, pre |-> <<>>]

NoHandler ==
    [url |-> "", pc |-> "idle", outcome |-> "none", response |-> undefined,
     network |-> "none", fetched |-> undefined, pre |-> <<>>]

----------------------------------------------------------------------------
(* Initial state: a new database, no call issued *)

Init ==
    /\ db = "closed"
    /\ parents = EmptyStore
    /\ entries = EmptyStore
    /\ categories = EmptyStore
    /\ calls = [s \in Slots |-> NoCall]
    /\ ncalls = 0
    /\ file = <<>>
    /\ caches = <<>>
    /\ workers = [w \in Releases |-> NoWorker]
    /\ handlers = [w \in Releases |-> NoHandler]

----------------------------------------------------------------------------
(* Categories *)

(* the record createCategory builds *)
newCategory(name, isDefault, t) ==
    [id |-> categoryId(name), name |-> name, isDefault |-> isDefault, createdAt |-> t]

RECURSIVE seedFrom(_, _, _)
(* the loop of seedDefaultCategories: createCategory(name, true) for each  *)
(* name, a failing one skipped                                             *)
seedFrom(cs, names, t) ==
    IF names = <<>> THEN cs
    ELSE seedFrom(categoryAdd(cs, newCategory(Head(names), TRUE, t)).store, Tail(names), t)

(* Mutant of seedDefaultCategories: the first name is left out *)
seedDefaultCategories_short(cs, t) == seedFrom(cs, Tail(defaultCategories), t)

seedDefaultCategories(cs, t) == seedFrom(cs, defaultCategories, t)

(* ExpenseDB.init : open the database, seed the categories if there are none *)
init(t) ==
    /\ db = "closed"
    /\ db' = "open"
    /\ categories' = IF Len(getCategories(categories)) = 0
                     THEN seedDefaultCategories(categories, t)
                     ELSE categories
    /\ UNCHANGED <<parents, entries, calls, ncalls, file>>
    /\ UNCHANGED workerVars

(* the page is loaded anew: a new ExpenseDB, this.db = null, no call       *)
(* issued; the object stores are as the page before left them              *)
reload ==
    /\ db = "open"
    /\ Quiet
    /\ db' = "closed"
    /\ calls' = [s \in Slots |-> NoCall]
    /\ UNCHANGED <<parents, entries, categories, ncalls, file>>
    /\ UNCHANGED workerVars

(* ExpenseDB.createCategory(name, false), as ExpenseUI.submitCategory calls it *)
createCategory(s, name, t) ==
    /\ CanStart(s)
    /\ LET c == Begin("createCategory", [name |-> name], "add", NoLocals)
           category == newCategory(name, FALSE, t)
           r == categoryAdd(categories, category)
       IN  /\ categories' = r.store
           /\ Issue(s, IF r.ok THEN resolve(c, <<category>>) ELSE reject(c, "ConstraintError"))
    /\ UNCHANGED <<db, parents, entries, file>>
    /\ UNCHANGED workerVars

(* Mutant of canDelete: the default flag is not looked at *)
canDelete_unprotected(category) == category # undefined

(* the test of deleteCategory: category && !category.isDefault *)
canDelete(category) == category # undefined /\ ~category[1].isDefault

(* ExpenseDB.deleteCategory *)
deleteCategory(s, id) ==
    /\ CanStart(s)
    /\ LET c == Begin("deleteCategory", [id |-> id], "get", NoLocals)
           category == storeGet(categories, id)
       IN  IF canDelete(category)
           THEN /\ categories' = storeDelete(categories, id)
                /\ Issue(s, resolve(c, <<>>))
           ELSE /\ categories' = categories
                /\ Issue(s, reject(c, "Cannot delete default category"))
    /\ UNCHANGED <<db, parents, entries, file>>
    /\ UNCHANGED workerVars

----------------------------------------------------------------------------
(* Groups *)

(* the record createParent builds; an empty monthYear is falsy *)
newParent(name, monthYear, t) ==
    [id |-> IF monthYear # "" THEN monthYear ELSE generateMonthYearId(t),
     name |-> name, createdAt |-> t, totalExpenses |-> 0]

(* ExpenseDB.createParent *)
createParent(s, name, monthYear, t) ==
    /\ CanStart(s)
    /\ LET c == Begin("createParent", [name |-> name, monthYear |-> monthYear], "add", NoLocals)
           parent == newParent(name, monthYear, t)
           r == storeAdd(parents, parent)
       IN  /\ parents' = r.store
           /\ Issue(s, IF r.ok THEN resolve(c, <<parent>>) ELSE reject(c, "ConstraintError"))
    /\ UNCHANGED <<db, entries, categories, file>>
    /\ UNCHANGED workerVars

(* ExpenseDB.updateParentTotal, first transaction: read the Entries of the *)
(* Group and sum their amounts                                             *)
updateParentTotal_read(s) ==
    /\ Running(calls[s])
    /\ calls[s].pc = "read"
    /\ calls' = [calls EXCEPT ![s].loc.total = total(entries, calls[s].loc.parentId),
                              ![s].pc = "write"]
    /\ UNCHANGED <<db, parents, entries, categories, ncalls, file>>
    /\ UNCHANGED workerVars

(* Mutant of withTotal: the sum is added to the stored total *)
withTotal_adds(parent, sum) == [parent EXCEPT !.totalExpenses = parent.totalExpenses + sum]

(* what the Group record becomes in the second transaction *)
withTotal(parent, sum) == [parent EXCEPT !.totalExpenses = sum]

(* the value the calling method resolves with once the total is written *)
resolved(c) ==
    IF c.op = "deleteEntry" THEN resolve(c, <<>>) ELSE resolve(c, c.loc.original)

(* the calling method when updateParentTotal rejects: each awaits it in an *)
(* async success callback, createEntry 183-186, updateEntry 241-244,       *)
(* deleteEntry 267-272, duplicateEntry 302-305, with nothing to catch it   *)
parentNotFound(c) == unhandledRejection(c, "Parent not found")

(* ExpenseDB.updateParentTotal, second transaction: get the Group and put  *)
(* it back with the sum, then the calling method resolves                  *)
updateParentTotal_write(s) ==
    /\ Running(calls[s])
    /\ calls[s].pc = "write"
    /\ LET c == calls[s]
           parent == storeGet(parents, c.loc.parentId)
       IN  IF parent # undefined
           THEN /\ parents' = storePut(parents, withTotal(parent[1], c.loc.total))
                /\ calls' = [calls EXCEPT ![s] = resolved(c)]
           ELSE /\ parents' = parents
                /\ calls' = [calls EXCEPT ![s] = parentNotFound(c)]
    /\ UNCHANGED <<db, entries, categories, ncalls, file>>
    /\ UNCHANGED workerVars

(* Mutant of deleteParent: the Group goes without a look at its Entries *)
deleteParent_noCascade(s, id) ==
    /\ CanStart(s)
    /\ Issue(s, Begin("deleteParent", [id |-> id], "cascade",
                      [NoLocals EXCEPT !.parentId = id]))
    /\ UNCHANGED <<db, parents, entries, categories, file>>
    /\ UNCHANGED workerVars

(* ExpenseDB.deleteParent, up to its first await: read the Group's Entries *)
deleteParent(s, id) ==
    /\ CanStart(s)
    /\ Issue(s, Begin("deleteParent", [id |-> id], "cascade",
                      [NoLocals EXCEPT !.parentId = id,
                                       !.list = getEntriesByParent(entries, id)]))
    /\ UNCHANGED <<db, parents, entries, categories, file>>
    /\ UNCHANGED workerVars

(* Mutant of deleteParent_deleteEntry: the loop passes over an Entry *)
(* without deleting it                                               *)
deleteParent_deleteEntry_skips(s) ==
    /\ Running(calls[s])
    /\ calls[s].pc = "cascade"
    /\ calls[s].loc.list # <<>>
    /\ calls' = [calls EXCEPT ![s].loc.list = Tail(calls[s].loc.list)]
    /\ UNCHANGED <<db, parents, entries, categories, ncalls, file>>
    /\ UNCHANGED workerVars

(* the loop of deleteParent: deleteEntry(entry.id, false) *)
deleteParent_deleteEntry(s) ==
    /\ Running(calls[s])
    /\ calls[s].pc = "cascade"
    /\ calls[s].loc.list # <<>>
    /\ entries' = storeDelete(entries, Head(calls[s].loc.list).id)
    /\ calls' = [calls EXCEPT ![s].loc.list = Tail(calls[s].loc.list)]
    /\ UNCHANGED <<db, parents, categories, ncalls, file>>
    /\ UNCHANGED workerVars

(* Mutant of deleteParent_delete: the Group record goes before the loop    *)
(* has ended                                                               *)
deleteParent_delete_early(s) ==
    /\ Running(calls[s])
    /\ calls[s].pc = "cascade"
    /\ parents' = storeDelete(parents, calls[s].arg.id)
    /\ calls' = [calls EXCEPT ![s] =
          IF calls[s].loc.list = <<>> THEN resolve(calls[s], <<>>) ELSE calls[s]]
    /\ UNCHANGED <<db, entries, categories, ncalls, file>>
    /\ UNCHANGED workerVars

(* the end of deleteParent: delete the Group record and resolve *)
deleteParent_delete(s) ==
    /\ Running(calls[s])
    /\ calls[s].pc = "cascade"
    /\ calls[s].loc.list = <<>>
    /\ parents' = storeDelete(parents, calls[s].arg.id)
    /\ calls' = [calls EXCEPT ![s] = resolve(calls[s], <<>>)]
    /\ UNCHANGED <<db, entries, categories, ncalls, file>>
    /\ UNCHANGED workerVars

----------------------------------------------------------------------------
(* Entries *)

(* the record createEntry builds *)
newEntry(id, parentId, inp, t) ==
    [id |-> id, parentId |-> parentId, description |-> inp.description,
     amount |-> parseFloat(inp.amount), category |-> inp.category,
     date |-> IF inp.date # 0 THEN inp.date ELSE t, createdAt |-> t]

(* the locals of a method that goes on to updateParentTotal(parentId) *)
recompute(parentId, entry) ==
    [NoLocals EXCEPT !.parentId = parentId, !.original = entry]

(* ExpenseDB.createEntry, up to the success of its add *)
createEntry(s, parentId, inp, t) ==
    /\ CanStart(s)
    /\ TokenLeft
    /\ \E id \in generateUUID(entries) :
         LET entry == newEntry(id, parentId, inp, t)
             c == Begin("createEntry", [parentId |-> parentId, input |-> inp], "read",
                        recompute(parentId, <<entry>>))
             r == storeAdd(entries, entry)
         IN  /\ entries' = r.store
             /\ Issue(s, IF r.ok THEN c ELSE reject(c, "ConstraintError"))
    /\ UNCHANGED <<db, parents, categories, file>>
    /\ UNCHANGED workerVars

(* Object.assign(entry, updates), then amount re-parsed when it is given *)
assign(entry, updates) ==
    [id |-> entry.id,
     parentId |-> IF "parentId" \in updates.keys THEN updates.parentId ELSE entry.parentId,
     description |-> IF "description" \in updates.keys THEN updates.description
                     ELSE entry.description,
     amount |-> IF "amount" \in updates.keys THEN parseFloat(updates.amount) ELSE entry.amount,
     category |-> IF "category" \in updates.keys THEN updates.category ELSE entry.category,
     date |-> IF "date" \in updates.keys THEN updates.date ELSE entry.date,
     createdAt |-> entry.createdAt]

(* Mutant of entryNotFound: the call resolves *)
entryNotFound_resolves(c) == resolve(c, <<>>)

(* reject(new Error('Entry not found')) of updateEntry, and the throw of   *)
(* duplicateEntry                                                          *)
entryNotFound(c) == reject(c, "Entry not found")

(* ExpenseDB.updateEntry, its transaction on 'entries': get, merge, put *)
updateEntry(s, id, updates) ==
    /\ CanStart(s)
    /\ LET found == storeGet(entries, id)
           entry == assign(found[1], updates)
           c == Begin("updateEntry", [id |-> id, updates |-> updates], "read", NoLocals)
       IN  IF found # undefined
           THEN /\ entries' = storePut(entries, entry)
                /\ Issue(s, [c EXCEPT !.loc = recompute(entry.parentId, <<entry>>)])
           ELSE /\ entries' = entries
                /\ Issue(s, entryNotFound(c))
    /\ UNCHANGED <<db, parents, categories, file>>
    /\ UNCHANGED workerVars

(* Mutant of alreadyDeleted: the call rejects as updateEntry does *)
alreadyDeleted_rejects(c) == reject(c, "Entry not found")

(* the else branch of deleteEntry: "Entry doesn't exist, consider it       *)
(* deleted"                                                                *)
alreadyDeleted(c) == resolve(c, <<>>)

(* ExpenseDB.deleteEntry(id), updateTotal = true: get and delete *)
deleteEntry(s, id) ==
    /\ CanStart(s)
    /\ LET found == storeGet(entries, id)
           c == Begin("deleteEntry", [id |-> id], "read", NoLocals)
       IN  IF found # undefined
           THEN /\ entries' = storeDelete(entries, id)
                /\ Issue(s, [c EXCEPT !.loc = recompute(found[1].parentId, found)])
           ELSE /\ entries' = entries
                /\ Issue(s, alreadyDeleted(c))
    /\ UNCHANGED <<db, parents, categories, file>>
    /\ UNCHANGED workerVars

(* ExpenseDB.duplicateEntry, up to its first await: getEntry *)
duplicateEntry(s, id) ==
    /\ CanStart(s)
    /\ TokenLeft
    /\ LET original == getEntry(entries, id)
           c == Begin("duplicateEntry", [id |-> id], "add", NoLocals)
       IN  Issue(s, IF original # undefined
                    THEN [c EXCEPT !.loc.original = original]
                    ELSE entryNotFound(c))
    /\ UNCHANGED <<db, parents, entries, categories, file>>
    /\ UNCHANGED workerVars

(* Mutant of duplicateOf: the copy loses the category *)
duplicateOf_dropsCategory(original, id, t) ==
    [original EXCEPT !.id = id, !.createdAt = t, !.category = ""]

(* the copy duplicateEntry inserts *)
duplicateOf(original, id, t) == [original EXCEPT !.id = id, !.createdAt = t]

(* ExpenseDB.duplicateEntry, the add of the copy *)
duplicateEntry_add(s, t) ==
    /\ Running(calls[s])
    /\ calls[s].pc = "add"
    /\ \E id \in generateUUID(entries) :
         LET c == calls[s]
             duplicate == duplicateOf(c.loc.original[1], id, t)
             r == storeAdd(entries, duplicate)
         IN  /\ entries' = r.store
             /\ calls' = [calls EXCEPT ![s] =
                   IF r.ok
                   THEN [c EXCEPT !.pc = "read",
                                  !.loc = recompute(duplicate.parentId, <<duplicate>>)]
                   ELSE reject(c, "ConstraintError")]
    /\ UNCHANGED <<db, parents, categories, ncalls, file>>
    /\ UNCHANGED workerVars

----------------------------------------------------------------------------
(* Backup: export and import *)

RECURSIVE entriesOf(_, _)
(* the loop of exportData: the Entries of each Group, Group after Group *)
entriesOf(ps, es) ==
    IF ps = <<>> THEN <<>>
    ELSE getEntriesByParent(es, Head(ps).id) \o entriesOf(Tail(ps), es)

(* ExpenseDB.exportData.  keys names the properties of the object *)
exportData(st, t) ==
    [keys |-> {"parents", "entries", "categories", "exportDate", "version"},
     parents |-> getAllParents(st.parents),
     entries |-> entriesOf(getAllParents(st.parents), st.entries),
     categories |-> getCategories(st.categories),
     exportDate |-> t,
     version |-> version]

DigitChar == <<"0", "1", "2", "3", "4", "5", "6", "7", "8", "9">>

RECURSIVE integerToString(_)
(* the decimal numeral of a natural number, as JSON.stringify writes it *)
integerToString(n) ==
    IF n < 10 THEN <<DigitChar[n + 1]>>
    ELSE integerToString(n \div 10) \o <<DigitChar[(n % 10) + 1]>>

(* Mutant of numberToString: the fraction is not written *)
numberToString_truncates(h) == integerToString(h \div 100)

(* the numeral JSON.stringify writes for an amount of h hundredths: the    *)
(* integer part, then the point and the decimals without trailing zeros    *)
(* when there are any                                                      *)
numberToString(h) ==
    LET frac == h % 100
    IN  integerToString(h \div 100)
        \o (IF frac = 0 THEN <<>>
            ELSE IF frac % 10 = 0 THEN <<".", DigitChar[(frac \div 10) + 1]>>
            ELSE <<".", DigitChar[(frac \div 10) + 1], DigitChar[(frac % 10) + 1]>>)

(* the value JSON.parse reads from the numeral of a timestamp, and from    *)
(* the numeral of an amount, in hundredths                                 *)
parseInteger(text) == digitsValue(digitsPrefix(text), 0)

parseNumber(text) == parseFloatChars(text)

(* JSON.stringify(data) of ExpenseUI.exportData: the text of the file.     *)
(* The numbers are written as numerals; the strings of the model hold no   *)
(* character that JSON escapes and stand for themselves                    *)
stringify(data) ==
    [data EXCEPT
        !.parents = [i \in 1..Len(@) |->
            [@[i] EXCEPT !.createdAt = integerToString(@),
                         !.totalExpenses = numberToString(@)]],
        !.entries = [i \in 1..Len(@) |->
            [@[i] EXCEPT !.createdAt = integerToString(@),
                         !.date = integerToString(@),
                         !.amount = numberToString(@)]],
        !.categories = [i \in 1..Len(@) |->
            [@[i] EXCEPT !.createdAt = integerToString(@)]],
        !.version = integerToString(@)]

(* JSON.parse(text) of ExpenseUI.importData on what stringify wrote *)
parse(text) ==
    [text EXCEPT
        !.parents = [i \in 1..Len(@) |->
            [@[i] EXCEPT !.createdAt = parseInteger(@),
                         !.totalExpenses = parseNumber(@)]],
        !.entries = [i \in 1..Len(@) |->
            [@[i] EXCEPT !.createdAt = parseInteger(@),
                         !.date = parseInteger(@),
                         !.amount = parseNumber(@)]],
        !.categories = [i \in 1..Len(@) |->
            [@[i] EXCEPT !.createdAt = parseInteger(@)]],
        !.version = parseInteger(@)]

RECURSIVE addAll(_, _)
(* a loop of awaited adds that stops at the first one that fails *)
addAll(store, recs) ==
    IF recs = <<>> THEN [ok |-> TRUE, store |-> store]
    ELSE LET r == storeAdd(store, Head(recs))
         IN  IF r.ok THEN addAll(r.store, Tail(recs)) ELSE r

RECURSIVE addCategories_puts(_, _)
(* Mutant of addCategories: put in place of add *)
addCategories_puts(store, recs) ==
    IF recs = <<>> THEN store
    ELSE addCategories_puts(storePut(store, Head(recs)), Tail(recs))

RECURSIVE addCategories(_, _)
(* the loop over data.categories: an add that fails is skipped *)
addCategories(store, recs) ==
    IF recs = <<>> THEN store
    ELSE addCategories(categoryAdd(store, Head(recs)).store, Tail(recs))

(* ExpenseDB.clearAllData *)
clearAllData(st) == [st EXCEPT !.parents = EmptyStore, !.entries = EmptyStore]

(* ExpenseDB.importData: the stores it leaves and the error it rejects     *)
(* with, "" when it resolves.  Iterating a missing list throws a TypeError *)
dbImportData(st, data) ==
    LET cleared == clearAllData(st)
        cs == IF "categories" \in data.keys
              THEN addCategories(cleared.categories, data.categories)
              ELSE cleared.categories
        st1 == [cleared EXCEPT !.categories = cs]
        ps == addAll(st1.parents, data.parents)
        st2 == [st1 EXCEPT !.parents = ps.store]
        es == addAll(st2.entries, data.entries)
        st3 == [st2 EXCEPT !.entries = es.store]
    IN  IF "parents" \notin data.keys THEN [stores |-> st1, error |-> "TypeError"]
        ELSE IF ~ps.ok THEN [stores |-> st2, error |-> "ConstraintError"]
        ELSE IF "entries" \notin data.keys THEN [stores |-> st2, error |-> "TypeError"]
        ELSE IF ~es.ok THEN [stores |-> st3, error |-> "ConstraintError"]
        ELSE [stores |-> st3, error |-> ""]

(* Mutant of uiImportData: db.importData without the format check *)
uiImportData_unchecked(st, data) == dbImportData(st, data)

(* the onchange handler of ExpenseUI.importData: the format check, then    *)
(* db.importData                                                           *)
uiImportData(st, data) ==
    IF "parents" \notin data.keys \/ "entries" \notin data.keys
    THEN [stores |-> st, error |-> "Invalid data format"]
    ELSE dbImportData(st, data)

Group(id, sum) == [id |-> id, name |-> "January", createdAt |-> 1, totalExpenses |-> sum]

Entry(id, parentId, amount) ==
    [id |-> id, parentId |-> parentId, description |-> "Coffee", amount |-> amount,
     category |-> "Food", date |-> 1, createdAt |-> 1]

NoLists == [keys |-> {}, parents |-> <<>>, entries |-> <<>>, categories |-> <<>>]

(* the backup files a user may pick besides the ones the program wrote, as *)
(* JSON.parse reads them                                                   *)
ImportFiles ==
    { [NoLists EXCEPT !.keys = {}],
      [NoLists EXCEPT !.keys = {"parents"},
                      !.parents = <<Group("2024-01", 0)>>],
      [NoLists EXCEPT !.keys = {"parents", "entries", "categories"},
                      !.parents = <<Group("2024-01", 200), Group("2024-02", 0)>>,
                      !.entries = <<Entry("e1", "2024-01", 200)>>,
                      !.categories = <<newCategory("Gym", FALSE, 1),
                                       newCategory("Food", FALSE, 1),
                                       newCategory("Pet Care", TRUE, 1)>>],
      [NoLists EXCEPT !.keys = {"parents", "entries", "categories"},
                      !.parents = <<Group("2024-01", 0)>>,
                      !.entries = <<Entry("e1", "2024-01", 450), Entry("e2", "2024-02", 200)>>,
                      !.categories = <<newCategory("Gym", FALSE, 2),
                                       newCategory("Food", FALSE, 2)>>],
      [NoLists EXCEPT !.keys = {"parents", "entries"},
                      !.parents = <<Group("2024-01", 0), Group("2024-01", 200)>>] }

(* ExpenseUI.exportData: db.exportData, written to a file as JSON text; *)
(* source remembers the stores the file was written from                *)
export(s, t) ==
    /\ CanStart(s)
    /\ Quiet
    /\ LET c == Begin("exportData", <<>>, "done", NoLocals)
           data == exportData(Stores, t)
       IN  /\ file' = <<[data |-> stringify(data), source |-> Stores]>>
           /\ Issue(s, resolve(c, <<>>))
    /\ UNCHANGED <<db, parents, entries, categories>>
    /\ UNCHANGED workerVars

(* ExpenseUI.importData with the file the user picked *)
import(s, data) ==
    /\ CanStart(s)
    /\ Quiet
    /\ LET c == Begin("importData", data, "done", NoLocals)
           r == uiImportData(Stores, data)
       IN  /\ parents' = r.stores.parents
           /\ entries' = r.stores.entries
           /\ categories' = r.stores.categories
           /\ Issue(s, IF r.error = "" THEN resolve(c, <<>>) ELSE reject(c, r.error))
    /\ UNCHANGED <<db, file>>
    /\ UNCHANGED workerVars

----------------------------------------------------------------------------
(* Service worker: install, activate and fetch of a release *)

(* the releases deployed before w *)
Earlier(w) ==
    {ReleaseOrder[j] : j \in {i \in 1..Len(ReleaseOrder) :
        \E k \in 1..Len(ReleaseOrder) : ReleaseOrder[k] = w /\ i < k}}

(* the browser registers release w once the releases before it have        *)
(* settled, and dispatches 'install' to it                                 *)
register(w) ==
    /\ workers[w].state = "parsed"
    /\ \A v \in Earlier(w) : workers[v].state \in {"activated", "redundant"}
    /\ workers' = [workers EXCEPT ![w] = [@ EXCEPT !.state = "installing", !.pc = "open"]]
    /\ UNCHANGED <<caches, handlers>>
    /\ UNCHANGED storeVars

(* 'install': caches.open(CACHE_NAME) *)
install_open(w) ==
    /\ workers[w].pc = "open"
    /\ caches' = cachesOpen(caches, w)
    /\ workers' = [workers EXCEPT ![w] = [@ EXCEPT !.pc = "addAll", !.pre = caches']]
    /\ UNCHANGED handlers
    /\ UNCHANGED storeVars

(* 'install': cache.addAll(ASSETS_TO_CACHE); failing are the assets the    *)
(* network does not deliver.  A rejection fails waitUntil and the install  *)
install_addAll(w, failing) ==
    /\ workers[w].pc = "addAll"
    /\ LET r == cacheAddAll(caches, w, ASSETS_TO_CACHE, failing)
       IN  /\ caches' = r.caches
           /\ workers' = [workers EXCEPT ![w] =
                 IF r.ok THEN [@ EXCEPT !.pc = "skipWaiting", !.fetched = Manifest \ failing]
                 ELSE [@ EXCEPT !.pc = "failed", !.state = "redundant",
                                !.fetched = Manifest \ failing]]
    /\ UNCHANGED handlers
    /\ UNCHANGED storeVars

(* 'install': self.skipWaiting(), which ends the install *)
install_skipWaiting(w) ==
    /\ workers[w].pc = "skipWaiting"
    /\ workers' = [workers EXCEPT ![w] =
          [@ EXCEPT !.pc = "installed", !.state = "installed", !.skipWaiting = TRUE]]
    /\ UNCHANGED <<caches, handlers>>
    /\ UNCHANGED storeVars

(* the browser makes an installed release that asked not to wait the       *)
(* active one, the release before it redundant, and dispatches 'activate'  *)
activate(w) ==
    /\ workers[w].state = "installed"
    /\ workers[w].skipWaiting
    /\ workers' = [v \in Releases |->
          IF v = w THEN [workers[v] EXCEPT !.state = "activating", !.pc = "keys"]
          ELSE IF workers[v].state = "activated" THEN [workers[v] EXCEPT !.state = "redundant"]
          ELSE workers[v]]
    /\ UNCHANGED <<caches, handlers>>
    /\ UNCHANGED storeVars

(* 'activate': caches.keys() *)
activate_keys(w) ==
    /\ workers[w].pc = "keys"
    /\ workers' = [workers EXCEPT ![w] =
          [@ EXCEPT !.pc = "delete", !.pre = caches,
                    !.keys = {cachesKeys(caches)[i] : i \in 1..Len(caches)}]]
    /\ UNCHANGED <<caches, handlers>>
    /\ UNCHANGED storeVars

(* Mutant of stale: no bucket is stale *)
stale_none(w) == {}

(* 'activate': the names the map deletes, cacheName !== CACHE_NAME *)
stale(w) == {name \in workers[w].keys : name # w}

(* 'activate': one caches.delete(cacheName) of Promise.all *)
activate_delete(w, name) ==
    /\ workers[w].pc = "delete"
    /\ name \in stale(w) \ workers[w].deleted
    /\ caches' = cachesDelete(caches, name)
    /\ workers' = [workers EXCEPT ![w] = [@ EXCEPT !.deleted = @ \cup {name}]]
    /\ UNCHANGED handlers
    /\ UNCHANGED storeVars

(* 'activate': self.clients.claim() once Promise.all has resolved *)
activate_claim(w) ==
    /\ workers[w].pc = "delete"
    /\ stale(w) \subseteq workers[w].deleted
    /\ workers' = [workers EXCEPT ![w] =
          [@ EXCEPT !.pc = "activated", !.state = "activated", !.claimed = TRUE]]
    /\ UNCHANGED <<caches, handlers>>
    /\ UNCHANGED storeVars

(* 'fetch', dispatched to the active release: caches.match(event.request), *)
(* answered with the response found                                        *)
fetch(w, url) ==
    /\ workers[w].state = "activated"
    /\ handlers[w].pc \in {"idle", "done"}
    /\ LET found == cachesMatch(caches, url)
           h == [NoHandler EXCEPT !.url = url, !.pre = caches]
       IN  handlers' = [handlers EXCEPT ![w] =
              IF found # undefined
              THEN [h EXCEPT !.pc = "done", !.outcome = "resolved", !.response = found]
              ELSE [h EXCEPT !.pc = "network"]]
    /\ UNCHANGED <<caches, workers>>
    /\ UNCHANGED storeVars

(* Mutant of cacheable: every response is worth caching *)
cacheable_any(response) == TRUE

(* fetchResponse && fetchResponse.status === 200 *)
cacheable(response) == response.status = 200

(* 'fetch': fetch(event.request) settles.  The response is the answer; a   *)
(* failure is caught by the catch of the chain, whose callback returns     *)
(* nothing, so that the answer is a promise resolved with undefined        *)
fetch_network(w, outcome) ==
    /\ handlers[w].pc = "network"
    /\ LET h == handlers[w]
           fetchResponse == Response(h.url, outcome.status)
       IN  handlers' = [handlers EXCEPT ![w] =
              IF outcome.failed
              THEN [h EXCEPT !.pc = "done", !.network = "failed",
                             !.outcome = "resolved", !.response = undefined]
              ELSE [h EXCEPT !.pc = IF cacheable(fetchResponse) THEN "put" ELSE "done",
                             !.network = "performed", !.fetched = <<fetchResponse>>,
                             !.outcome = "resolved", !.response = <<fetchResponse>>]]
    /\ UNCHANGED <<caches, workers>>
    /\ UNCHANGED storeVars

(* 'fetch': caches.open(CACHE_NAME), then cache.put(event.request, clone), *)
(* which nothing waits for                                                 *)
fetch_put(w) ==
    /\ handlers[w].pc = "put"
    /\ caches' = cachePut(cachesOpen(caches, w), w, handlers[w].url, handlers[w].response[1])
    /\ handlers' = [handlers EXCEPT ![w] = [@ EXCEPT !.pc = "done"]]
    /\ UNCHANGED workers
    /\ UNCHANGED storeVars

----------------------------------------------------------------------------
(* Specifications *)

(* a step of a recomputation in flight *)
StepTotal(s) ==
    \/ updateParentTotal_read(s)
    \/ updateParentTotal_write(s)

(* a step of a call in flight *)
Step(s) ==
    \/ StepTotal(s)
    \/ \E t \in Times : duplicateEntry_add(s, t)
    \/ deleteParent_deleteEntry(s)
    \/ deleteParent_delete(s)

(* the calls on Groups and Entries *)
Call(s) ==
    \/ \E name \in GroupNames, monthYear \in GroupIds \cup {""}, t \in Times :
          createParent(s, name, monthYear, t)
    \/ \E id \in GroupIds : deleteParent(s, id)
    \/ \E parentId \in GroupIds, inp \in EntryInputs, t \in Times :
          createEntry(s, parentId, inp, t)
    \/ \E id \in EntryIds, updates \in EntryUpdates : updateEntry(s, id, updates)
    \/ \E id \in EntryIds : deleteEntry(s, id)
    \/ \E id \in EntryIds : duplicateEntry(s, id)

(* the backup calls; a file is one of ImportFiles or one the program wrote *)
Backup(s) ==
    \/ \E t \in Times : export(s, t)
    \/ \E data \in ImportFiles : import(s, data)
    \/ \E i \in 1..Len(file) : import(s, parse(file[i].data))

(* one call at a time: the next is issued when the last has finished *)
Next ==
    \/ init(1)
    \/ Quiet /\ Call("a")
    \/ Step("a")

Spec == Init /\ [][Next]_vars

(* one call at a time, the backup calls among them *)
NextBackup ==
    \/ init(1)
    \/ \E parentId \in GroupIds, inp \in EntryInputs, t \in Times :
          Quiet /\ createEntry("a", parentId, inp, t)
    \/ \E id \in EntryIds : Quiet /\ duplicateEntry("a", id)
    \/ Backup("a")
    \/ StepTotal("a")
    \/ \E t \in Times : duplicateEntry_add("a", t)

SpecBackup == Init /\ [][NextBackup]_vars

(* one call at a time on the Entries of the Groups a backup file brought *)
NextEntries ==
    \/ init(1)
    \/ \E data \in ImportFiles : import("a", data)
    \/ \E parentId \in GroupIds, inp \in EntryInputs, t \in Times :
          Quiet /\ createEntry("a", parentId, inp, t)
    \/ \E id \in EntryIds, updates \in EntryUpdates : Quiet /\ updateEntry("a", id, updates)
    \/ \E id \in EntryIds : Quiet /\ deleteEntry("a", id)
    \/ StepTotal("a")

SpecEntries == Init /\ [][NextEntries]_vars

(* the calls on Categories, one at a time *)
NextCategories ==
    \/ \E t \in Times : init(t)
    \/ reload
    \/ \E name \in CategoryNames, t \in Times : createCategory("a", name, t)
    \/ \E id \in AllCategoryIds : deleteCategory("a", id)
    \/ \E data \in ImportFiles : import("a", data)

SpecCategories == Init /\ [][NextCategories]_vars

(* the calls as the pages of ExpenseUI issue them, one at a time, from the  *)
(* empty store: an Entry is created in a Group that is there, and          *)
(* submitEntry passes description, amount, category and date to            *)
(* updateEntry, never a parentId                                           *)
NextSequential ==
    \/ init(1)
    \/ \E name \in GroupNames, monthYear \in GroupIds \cup {""}, t \in Times :
          Quiet /\ createParent("a", name, monthYear, t)
    \/ \E id \in GroupIds : Quiet /\ deleteParent("a", id)
    \/ \E parentId \in DOMAIN parents, inp \in EntryInputs, t \in Times :
          Quiet /\ createEntry("a", parentId, inp, t)
    \/ \E id \in EntryIds, updates \in {u \in EntryUpdates : "parentId" \notin u.keys} :
          Quiet /\ updateEntry("a", id, updates)
    \/ \E id \in EntryIds : Quiet /\ deleteEntry("a", id)
    \/ \E id \in EntryIds : Quiet /\ duplicateEntry("a", id)
    \/ Step("a")

SpecSequential == Init /\ [][NextSequential]_vars

(* entry mutations that overlap on one Group: a call is issued in a free   *)
(* slot while the call of the other slot is in flight                      *)
NextOverlap ==
    \/ init(1)
    \/ \E name \in GroupNames : Quiet /\ createParent("a", name, "", 1)
    \/ \E s \in Slots :
          /\ FreeSlot(s)
          /\ \/ \E inp \in EntryInputs : createEntry(s, generateMonthYearId(1), inp, 2)
             \/ \E id \in EntryIds, updates \in {u \in EntryUpdates : u.keys = {"amount"}} :
                   updateEntry(s, id, updates)
             \/ \E id \in EntryIds : deleteEntry(s, id)
             \/ \E id \in EntryIds : duplicateEntry(s, id)
    \/ \E s \in Slots : updateParentTotal_read(s)
    \/ \E s \in Slots : updateParentTotal_write(s)
    \/ \E s \in Slots : duplicateEntry_add(s, 2)

SpecOverlap == Init /\ [][NextOverlap]_vars

(* the life of the releases of the service worker and the fetch events of  *)
(* their pages; failing is empty or one asset of the manifest              *)
NextWorker ==
    \E w \in Releases :
        \/ register(w)
        \/ install_open(w)
        \/ \E failing \in {{}} \cup {{a} : a \in Manifest} : install_addAll(w, failing)
        \/ install_skipWaiting(w)
        \/ activate(w)
        \/ activate_keys(w)
        \/ \E name \in Releases : activate_delete(w, name)
        \/ activate_claim(w)
        \/ \E url \in Requests : fetch(w, url)
        \/ \E outcome \in NetworkOutcomes : fetch_network(w, outcome)
        \/ fetch_put(w)

SpecWorker == Init /\ [][NextWorker]_vars

----------------------------------------------------------------------------
(* Properties *)

EntryOps == {"createEntry", "updateEntry", "deleteEntry", "duplicateEntry"}

(* the kinds of failure of the specification, for the errors of the code *)
Kind(error) ==
    CASE error = "ConstraintError" -> "DuplicateKey"
      [] error \in {"Parent not found", "Entry not found"} -> "NotFound"
      [] error = "Cannot delete default category" -> "Protected"
      [] error = "Invalid data format" -> "InvalidFormat"
      [] OTHER -> "StorageFailure"

EntriesOfGroup(es, g) == {i \in DOMAIN es : es[i].parentId = g}

RECURSIVE SumAmounts(_, _)
SumAmounts(es, ids) ==
    IF ids = {} THEN 0
    ELSE LET i == CHOOSE i \in ids : TRUE
         IN  es[i].amount + SumAmounts(es, ids \ {i})

(* the sum of amount over the Entries that have g as parentId *)
SumOfGroup(es, g) == SumAmounts(es, EntriesOfGroup(es, g))

----------------------------------------------------------------------------
(* C3: every store operation that fails ends rejected.  In particular an   *)
(* entry mutation that has written its Entry and whose recompute fails     *)
(* with NotFound, no Group having that parentId, ends rejected: it neither *)
(* resolves nor stays pending for ever.                                    *)
C3_FailureIsRejected ==
    \A s \in Slots :
        LET c == calls[s]
        IN  (c.op \in EntryOps /\ Finished(c) /\ c.error # "") =>
                (c.status = "rejected" /\ Kind(c.error) = "NotFound")

----------------------------------------------------------------------------
(* C6: once deleteGroup(g) has resolved, listEntriesByGroup(g) is empty    *)
(* and getGroup(g) is the not-found sentinel, whatever the Group held.     *)
C6_DeleteGroupLeavesNothing ==
    \A s \in Slots :
        LET c == calls[s]
        IN  (c.op = "deleteParent" /\ c.status = "resolved") =>
                /\ Len(getEntriesByParent(entries, c.arg.id)) = 0
                /\ getParent(parents, c.arg.id) = undefined
                /\ EntriesOfGroup(entries, c.arg.id) = {}

(* a Group that held Entries has been deleted *)
C6_Witness ==
    \E s \in Slots :
        LET c == calls[s]
        IN  /\ c.op = "deleteParent" /\ c.status = "resolved"
            /\ c.arg.id \in DOMAIN c.pre.parents
            /\ EntriesOfGroup(c.pre.entries, c.arg.id) # {}

----------------------------------------------------------------------------
(* C10: createGroup(name, id) creates a Group with totalExpenses = 0 when  *)
(* no Group has that id; when one has, it fails with DuplicateKey and the  *)
(* Groups, the existing one with its name, createdAt and totalExpenses     *)
(* among them, are what they were.                                         *)
C10_CreateGroup ==
    \A s \in Slots :
        LET c == calls[s]
            given == c.arg.monthYear
        IN  (c.op = "createParent") =>
                /\ c.status \in {"resolved", "rejected"}
                /\ given # "" => (c.status = "rejected" <=> given \in DOMAIN c.pre.parents)
                /\ c.status = "rejected" =>
                       /\ Kind(c.error) = "DuplicateKey"
                       /\ parents = c.pre.parents
                /\ c.status = "resolved" =>
                       LET id == c.value[1].id
                       IN  /\ given # "" => id = given
                           /\ id \notin DOMAIN c.pre.parents
                           /\ DOMAIN parents = DOMAIN c.pre.parents \cup {id}
                           /\ \A k \in DOMAIN c.pre.parents : parents[k] = c.pre.parents[k]
                           /\ parents[id].totalExpenses = 0
                           /\ parents[id].name = c.arg.name

(* createGroup was refused for the id of a Group that has expenses *)
C10_Witness ==
    \E s \in Slots :
        LET c == calls[s]
        IN  /\ c.op = "createParent" /\ c.status = "rejected"
            /\ c.arg.monthYear \in DOMAIN parents
            /\ parents[c.arg.monthYear].totalExpenses > 0

----------------------------------------------------------------------------
(* the Groups an entry mutation is against: the Group of the Entry before  *)
(* the call and its Group after the call                                   *)
GroupsOf(c) ==
    (IF c.op \in {"updateEntry", "deleteEntry", "duplicateEntry"}
        /\ c.arg.id \in DOMAIN c.pre.entries
     THEN {c.pre.entries[c.arg.id].parentId} ELSE {})
    \cup (IF c.op = "createEntry" THEN {c.arg.parentId} ELSE {})
    \cup (IF c.op = "updateEntry" /\ c.status = "resolved"
          THEN {c.value[1].parentId} ELSE {})

(* C1: when a createEntry, updateEntry or deleteEntry against an existing  *)
(* Group resolves, calls not overlapping, the totalExpenses the Group      *)
(* stores is the sum of amount over the Entries that have its id as        *)
(* parentId.                                                               *)
C1_TotalIsExact ==
    \A s \in Slots :
        LET c == calls[s]
        IN  (c.op \in {"createEntry", "updateEntry", "deleteEntry"} /\ c.status = "resolved") =>
                \A g \in GroupsOf(c) \cap DOMAIN parents :
                    parents[g].totalExpenses = SumOfGroup(entries, g)

----------------------------------------------------------------------------
(* C2: importSnapshot of a snapshot with neither a parents list nor an     *)
(* entries list fails with InvalidFormat, and Groups, Entries and          *)
(* Categories are then what they were before the call.                     *)
C2_InvalidImportChangesNothing ==
    \A s \in Slots :
        LET c == calls[s]
        IN  (c.op = "importData" /\ "parents" \notin c.arg.keys /\ "entries" \notin c.arg.keys) =>
                /\ c.status = "rejected"
                /\ Kind(c.error) = "InvalidFormat"
                /\ Stores = c.pre

(* a snapshot with no list was refused by a store that holds Groups and Entries *)
C2_Witness ==
    \E s \in Slots :
        LET c == calls[s]
        IN  /\ c.op = "importData" /\ c.arg.keys = {}
            /\ c.status = "rejected"
            /\ DOMAIN c.pre.parents # {} /\ DOMAIN c.pre.entries # {}

----------------------------------------------------------------------------
(* the call imported the file that exportData wrote *)
ImportOfExport(c) ==
    /\ c.op = "importData"
    /\ "exportDate" \in c.arg.keys
    /\ Len(file) > 0
    /\ c.arg = parse(file[1].data)

(* the Entries of es whose parentId is the id of a Group of ps *)
OwnedEntries(ps, es) ==
    [k \in {i \in DOMAIN es : es[i].parentId \in DOMAIN ps} |-> es[k]]

----------------------------------------------------------------------------
(* duplicateEntry added one Entry that copies the original *)
Copied(c) ==
    LET old == c.pre.entries[c.arg.id]
        added == DOMAIN entries \ DOMAIN c.pre.entries
    IN  /\ Cardinality(added) = 1
        /\ DOMAIN c.pre.entries \subseteq DOMAIN entries
        /\ \A k \in DOMAIN c.pre.entries : entries[k] = c.pre.entries[k]
        /\ \A n \in added :
              /\ entries[n].id = n
              /\ entries[n].description = old.description
              /\ entries[n].amount = old.amount
              /\ entries[n].category = old.category
              /\ entries[n].date = old.date
              /\ entries[n].parentId = old.parentId

(* duplicateEntry of an Entry that exists has settled or can go no further *)
Duplicated(c) ==
    c.op = "duplicateEntry" /\ Finished(c) /\ c.arg.id \in DOMAIN c.pre.entries

(* C7 as stated: duplicateEntry(id) on an existing Entry adds one Entry    *)
(* that copies it under a new id, the original unchanged, and when the     *)
(* call resolves the totalExpenses of the owning Group has increased by    *)
(* the duplicated amount.                                                  *)
C7_Duplicate_AsStated ==
    \A s \in Slots :
        LET c == calls[s]
            g == c.pre.entries[c.arg.id].parentId
        IN  Duplicated(c) =>
                /\ Copied(c)
                /\ c.status = "resolved" =>
                       parents[g].totalExpenses
                           = c.pre.parents[g].totalExpenses + c.pre.entries[c.arg.id].amount

(* C7 amended: duplicateEntry(id) on an existing Entry adds one Entry that *)
(* copies it under a new id, the original unchanged, and when the call     *)
(* resolves the totalExpenses of the owning Group is the sum of the        *)
(* amounts of its Entries, which is the sum before the call plus the       *)
(* duplicated amount; it is the stored total of before plus that amount    *)
(* when the stored total was exact before the call.                        *)
C7_Duplicate ==
    \A s \in Slots :
        LET c == calls[s]
            g == c.pre.entries[c.arg.id].parentId
            amount == c.pre.entries[c.arg.id].amount
        IN  Duplicated(c) =>
                /\ Copied(c)
                /\ c.status = "resolved" =>
                       /\ parents[g].totalExpenses = SumOfGroup(entries, g)
                       /\ SumOfGroup(entries, g) = SumOfGroup(c.pre.entries, g) + amount
                       /\ c.pre.parents[g].totalExpenses = SumOfGroup(c.pre.entries, g) =>
                              parents[g].totalExpenses = c.pre.parents[g].totalExpenses + amount

(* an Entry of a Group whose stored total was exact has been duplicated *)
C7_Witness ==
    \E s \in Slots :
        LET c == calls[s]
            g == c.pre.entries[c.arg.id].parentId
        IN  /\ Duplicated(c) /\ c.status = "resolved"
            /\ c.pre.parents[g].totalExpenses = SumOfGroup(c.pre.entries, g)
            /\ parents[g].totalExpenses > c.pre.parents[g].totalExpenses

----------------------------------------------------------------------------
(* C8: a Category with isDefault = true is never removed: the nine seeded  *)
(* ones stay, no call removes or changes a default Category, deleteCategory*)
(* on a default fails with Protected and leaves the Categories unchanged,  *)
(* and deleteCategory on an existing Category that is no default succeeds  *)
(* and the Category is absent from listCategories().                       *)
C8_DefaultsStay ==
    /\ db = "open" =>
          \A i \in 1..Len(defaultCategories) :
              LET k == categoryId(defaultCategories[i])
              IN  /\ k \in DOMAIN categories
                  /\ categories[k].isDefault
                  /\ categories[k].name = defaultCategories[i]
    /\ \A s \in Slots :
          LET c == calls[s]
              before == c.pre.categories
              list == getCategories(categories)
          IN  /\ c.op # "none" =>
                    \A k \in DOMAIN before :
                        before[k].isDefault => (k \in DOMAIN categories /\ categories[k] = before[k])
              /\ (c.op = "deleteCategory" /\ c.arg.id \in DOMAIN before) =>
                    IF before[c.arg.id].isDefault
                    THEN /\ c.status = "rejected"
                         /\ Kind(c.error) = "Protected"
                         /\ categories = before
                    ELSE /\ c.status = "resolved"
                         /\ \A i \in 1..Len(list) : list[i].id # c.arg.id
                         /\ DOMAIN categories = DOMAIN before \ {c.arg.id}
                         /\ \A k \in DOMAIN categories : categories[k] = before[k]

(* a Category that is no default has been deleted *)
C8_Witness ==
    \E s \in Slots :
        LET c == calls[s]
        IN  /\ c.op = "deleteCategory" /\ c.status = "resolved"
            /\ c.arg.id \in DOMAIN c.pre.categories
            /\ Cardinality(DOMAIN categories) >= Len(defaultCategories)

----------------------------------------------------------------------------
(* C9: createCategory with a name whose derived id is the id of an         *)
(* existing Category fails with DuplicateKey and leaves that Category, its *)
(* name, isDefault and createdAt, unchanged.                               *)
C9_DuplicateCategory ==
    \A s \in Slots :
        LET c == calls[s]
        IN  (c.op = "createCategory" /\ categoryId(c.arg.name) \in DOMAIN c.pre.categories) =>
                /\ c.status = "rejected"
                /\ Kind(c.error) = "DuplicateKey"
                /\ categories = c.pre.categories

(* a second name, spelt otherwise, was refused for the id of a Category    *)
(* that createCategory had made                                            *)
C9_Witness ==
    \E s \in Slots :
        LET c == calls[s]
            k == categoryId(c.arg.name)
        IN  /\ c.op = "createCategory" /\ c.status = "rejected"
            /\ k \in DOMAIN categories
            /\ ~categories[k].isDefault
            /\ categories[k].name # c.arg.name

----------------------------------------------------------------------------
(* the Group whose total a resolved entry mutation has written *)
RecomputedGroup(c) ==
    IF c.op = "createEntry" THEN {c.arg.parentId}
    ELSE IF c.op \in {"updateEntry", "duplicateEntry"} THEN {c.value[1].parentId}
    ELSE IF c.arg.id \in DOMAIN c.pre.entries THEN {c.pre.entries[c.arg.id].parentId}
    ELSE {}

----------------------------------------------------------------------------
(* C11: deleteEntry(id) for an id that no Entry has resolves without error *)
(* and leaves every Group, totalExpenses included, every Entry and every   *)
(* Category unchanged; no recompute is started: the call is settled in the *)
(* state it is issued in and is never in flight.                           *)
C11_DeleteAbsentEntry ==
    \A s \in Slots :
        LET c == calls[s]
        IN  (c.op = "deleteEntry" /\ c.arg.id \notin DOMAIN c.pre.entries) =>
                /\ c.status = "resolved"
                /\ c.error = ""
                /\ c.loc = NoLocals
                /\ Stores = c.pre

(* an id that no Entry has was deleted from a store that holds a Group     *)
(* with an Entry                                                           *)
C11_Witness ==
    \E s \in Slots :
        LET c == calls[s]
        IN  /\ c.op = "deleteEntry" /\ c.arg.id \notin DOMAIN c.pre.entries
            /\ c.status = "resolved"
            /\ \E g \in DOMAIN parents : EntriesOfGroup(entries, g) # {}

----------------------------------------------------------------------------
(* C12: updateEntry(id, fields) and duplicateEntry(id) for an id that no   *)
(* Entry has fail with NotFound; no Entry is created and no Group, Entry   *)
(* or Category is changed.                                                 *)
C12_AbsentEntryNotFound ==
    \A s \in Slots :
        LET c == calls[s]
        IN  (c.op \in {"updateEntry", "duplicateEntry"} /\ c.arg.id \notin DOMAIN c.pre.entries) =>
                /\ c.status = "rejected"
                /\ Kind(c.error) = "NotFound"
                /\ Stores = c.pre

(* an id that no Entry has was refused by a store that holds a Group with  *)
(* an Entry                                                                *)
C12_Witness ==
    \E s \in Slots :
        LET c == calls[s]
        IN  /\ c.op \in {"updateEntry", "duplicateEntry"}
            /\ c.arg.id \notin DOMAIN c.pre.entries
            /\ c.status = "rejected"
            /\ \E g \in DOMAIN parents : EntriesOfGroup(entries, g) # {}

----------------------------------------------------------------------------
(* the records of a store, and of a list *)
Records(store) == {store[k] : k \in DOMAIN store}

Listed(list) == {list[i] : i \in 1..Len(list)}

(* a record has the id or the name of one of rs *)
Collides(r, rs) == \E x \in rs : x.id = r.id \/ x.name = r.name

----------------------------------------------------------------------------
(* the fetch event of a release was answered from the cache storage: an    *)
(* answer without a network request                                        *)
FromCache(h) == h.outcome = "resolved" /\ h.network = "none"

(* C14: on fetch interception the request is looked up in the bucket of    *)
(* the current version tag only: the handler answers from cache exactly    *)
(* when that bucket holds the request, and then it returns the stored      *)
(* response with no network request and no change of a bucket.             *)
C14_CurrentBucketOnly ==
    \A w \in Releases :
        LET h == handlers[w]
            current == bucket(h.pre, w)
        IN  h.url # "" =>
                /\ FromCache(h) <=> h.url \in DOMAIN current
                /\ FromCache(h) =>
                      /\ h.response = <<current[h.url]>>
                      /\ h.pc = "done"

----------------------------------------------------------------------------
(* C15: on fetch interception with no cached response and a network        *)
(* request that fails, the outcome of the handler is a failure, not a      *)
(* resolution with a substitute or an empty value.                         *)
C15_NetworkFailurePropagates ==
    \A w \in Releases :
        handlers[w].network = "failed" => handlers[w].outcome = "rejected"

----------------------------------------------------------------------------
(* C16: on a cache miss the handler performs the network request and       *)
(* answers with the network response; a response of status 200 is then     *)
(* stored in the bucket of the current version tag under the request, so   *)
(* that a later lookup of the request finds it, and a response of another  *)
(* status is returned with no bucket changed.  Stated of the steps of the  *)
(* handler of each release.                                                *)
C16_MissGoesToNetwork ==
    [][\A w \in Releases :
          LET h == handlers[w]
              url == h.url
          IN  /\ (handlers'[w].url # "" /\ cachesMatch(handlers'[w].pre, handlers'[w].url) = undefined)
                    => ~FromCache(handlers'[w])
              /\ (h.pc = "network" /\ handlers'[w].network = "performed") =>
                    /\ handlers'[w].outcome = "resolved"
                    /\ handlers'[w].response = handlers'[w].fetched
                    /\ handlers'[w].fetched[1].url = url
                    /\ caches' = caches
                    /\ handlers'[w].pc = IF handlers'[w].fetched[1].status = 200 THEN "put" ELSE "done"
              /\ (h.pc = "put" /\ handlers'[w].pc # "put") =>
                    /\ handlers'[w].pc = "done"
                    /\ handlers'[w].response = h.response
                    /\ bucket(caches', w) =
                          [u \in DOMAIN bucket(caches, w) \cup {url} |->
                              IF u = url THEN h.response[1] ELSE bucket(caches, w)[u]]
                    /\ cachesMatch(caches', url) # undefined
                    /\ \A v \in Releases \ {w} :
                          /\ cachesHas(caches', v) <=> cachesHas(caches, v)
                          /\ bucket(caches', v) = bucket(caches, v)
      ]_vars

(* a request that the bucket did not hold was answered by the network with *)
(* status 200, and the bucket of the release now holds that response       *)
C16_Witness ==
    \E w \in Releases :
        LET h == handlers[w]
        IN  /\ h.pc = "done" /\ h.network = "performed"
            /\ h.fetched[1].status = 200
            /\ h.url \notin DOMAIN bucket(h.pre, w)
            /\ h.url \in DOMAIN bucket(caches, w)
            /\ bucket(caches, w)[h.url] = h.response[1]

----------------------------------------------------------------------------
(* C17: install is all-or-nothing.  It succeeds only if every path of the  *)
(* manifest was fetched, and then every path is stored in the bucket of    *)
(* the current version tag before skipWaiting is signalled; if a fetch of  *)
(* the manifest fails the install fails, no entry is added to the bucket   *)
(* and skipWaiting is not signalled.                                       *)
C17_InstallAllOrNothing ==
    \A w \in Releases :
        LET wk == workers[w]
            now == bucket(caches, w)
        IN  /\ wk.pc \in {"skipWaiting", "installed"} =>
                  /\ Manifest \subseteq DOMAIN now
                  /\ \A a \in Manifest : now[a] = Response(a, 200)
            /\ wk.skipWaiting => wk.pc \notin {"none", "open", "addAll", "skipWaiting", "failed"}
            /\ wk.state \in {"installed", "activating", "activated"} =>
                  wk.skipWaiting /\ wk.fetched = Manifest
            /\ (wk.pc \notin {"none", "open", "addAll"} /\ wk.fetched # Manifest) => wk.pc = "failed"
            /\ wk.pc = "failed" =>
                  /\ wk.fetched # Manifest
                  /\ wk.state = "redundant"
                  /\ ~wk.skipWaiting
                  /\ now = bucket(wk.pre, w)
                  /\ Manifest \cap DOMAIN now = {}

(* the install of a release failed on one asset and left its bucket empty, *)
(* while the release before it is active with the whole manifest stored    *)
C17_Witness ==
    \E w \in Releases, v \in Releases :
        /\ workers[w].pc = "failed"
        /\ cachesHas(caches, w)
        /\ Cardinality(workers[w].fetched) = Cardinality(Manifest) - 1
        /\ workers[v].state = "activated"
        /\ Manifest \subseteq DOMAIN bucket(caches, v)

----------------------------------------------------------------------------
(* the names of the buckets of a cache storage *)
Names(cs) == {cs[i].name : i \in 1..Len(cs)}

----------------------------------------------------------------------------
(* C19: init seeds the Categories only when there are none.  Init on an    *)
(* empty collection leaves exactly the nine default names, each with       *)
(* isDefault = true; init on a collection that is not empty adds, removes  *)
(* and changes nothing.  Stated of the step that opens the database.       *)
C19_InitSeedsOnce ==
    [][(db = "closed" /\ db' = "open") =>
          /\ parents' = parents
          /\ entries' = entries
          /\ IF DOMAIN categories = {}
             THEN /\ Cardinality(DOMAIN categories') = 9
                  /\ {categories'[k].name : k \in DOMAIN categories'}
                        = {defaultCategories[i] : i \in 1..Len(defaultCategories)}
                  /\ \A k \in DOMAIN categories' :
                        categories'[k].isDefault /\ categories'[k].id = k
             ELSE categories' = categories
      ]_vars

(* the database was opened again, no call issued since, on Categories that *)
(* hold one the user made; the nine defaults are there once                *)
C19_Witness ==
    /\ db = "open"
    /\ ncalls > 0
    /\ \A s \in Slots : calls[s] = NoCall
    /\ \E k \in DOMAIN categories : ~categories[k].isDefault
    /\ Cardinality({k \in DOMAIN categories : categories[k].isDefault}) = 9

----------------------------------------------------------------------------
(* C20: an updateEntry that changes the parentId of an Entry from a Group  *)
(* g1 to another existing Group g2 leaves both totals correct when it      *)
(* resolves: the totalExpenses of g1 is the sum of the Entries still in g1 *)
(* and that of g2 the sum of the Entries now in g2.                        *)
C20_MoveKeepsBothTotals ==
    \A s \in Slots :
        LET c == calls[s]
            g1 == c.pre.entries[c.arg.id].parentId
            g2 == c.value[1].parentId
        IN  (/\ c.op = "updateEntry" /\ c.status = "resolved"
             /\ "parentId" \in c.arg.updates.keys
             /\ g1 # g2
             /\ {g1, g2} \subseteq DOMAIN c.pre.parents
             /\ {g1, g2} \subseteq DOMAIN parents) =>
                /\ parents[g1].totalExpenses = SumOfGroup(entries, g1)
                /\ parents[g2].totalExpenses = SumOfGroup(entries, g2)

----------------------------------------------------------------------------
(* C21 as stated: in every intermediate state of a deleteGroup(id) that no *)
(* other operation overlaps, if the Group record is absent then no Entry   *)
(* with parentId = id exists.                                              *)
C21_EntriesGoFirst_AsStated ==
    \A s \in Slots :
        LET c == calls[s]
        IN  (c.op = "deleteParent" /\ Running(c) /\ ~c.overlapped
             /\ c.arg.id \notin DOMAIN parents) =>
                EntriesOfGroup(entries, c.arg.id) = {}

(* C21 amended: deleteGroup(id) of a Group that exists when the call       *)
(* begins removes the Entries before the Group record: in every state of   *)
(* the call, with no other operation overlapping, the Group record is      *)
(* there unchanged while the call is in flight, and once it is absent no   *)
(* Entry with parentId = id exists.                                        *)
C21_EntriesGoFirst ==
    \A s \in Slots :
        LET c == calls[s]
            id == c.arg.id
        IN  (c.op = "deleteParent" /\ ~c.overlapped /\ id \in DOMAIN c.pre.parents) =>
                /\ Running(c) => (id \in DOMAIN parents /\ parents[id] = c.pre.parents[id])
                /\ id \notin DOMAIN parents => EntriesOfGroup(entries, id) = {}
                /\ EntriesOfGroup(entries, id) \subseteq EntriesOfGroup(c.pre.entries, id)

(* a deleteGroup in flight has removed the Entries the Group held and the  *)
(* Group record is still there                                             *)
C21_Witness ==
    \E s \in Slots :
        LET c == calls[s]
            id == c.arg.id
        IN  /\ c.op = "deleteParent" /\ Running(c) /\ ~c.overlapped
            /\ id \in DOMAIN c.pre.parents
            /\ EntriesOfGroup(c.pre.entries, id) # {}
            /\ EntriesOfGroup(entries, id) = {}
            /\ id \in DOMAIN parents

----------------------------------------------------------------------------
(* a store without the records that satisfy Gone *)
Without(store, Gone(_)) == [k \in {i \in DOMAIN store : ~Gone(store[i])} |-> store[k]]

(* C22: deleteGroup(id) removes exactly the Entries with parentId = id and *)
(* the Group with that id.  Every other Group, its totalExpenses included, *)
(* every Entry of another Group and every Category is unchanged; no Group  *)
(* record is rewritten at a step of the cascade; the call succeeds also    *)
(* when no Group has that id.  No other operation overlaps the call.       *)
C22_DeleteGroupRemovesExactly ==
    \A s \in Slots :
        LET c == calls[s]
            id == c.arg.id
            OfGroup(e) == e.parentId = id
            TheGroup(g) == g.id = id
        IN  (c.op = "deleteParent" /\ ~c.overlapped) =>
                /\ c.status \in {"pending", "resolved"}
                /\ c.pc # "hung"
                /\ categories = c.pre.categories
                /\ Without(entries, OfGroup) = Without(c.pre.entries, OfGroup)
                /\ DOMAIN entries \subseteq DOMAIN c.pre.entries
                /\ Running(c) => parents = c.pre.parents
                /\ c.status = "resolved" =>
                      /\ parents = Without(c.pre.parents, TheGroup)
                      /\ entries = Without(c.pre.entries, OfGroup)

(* deleteGroup of an id that no Group has resolved, and the Group and the  *)
(* Entry the store holds are there as before                               *)
C22_Witness ==
    \E s \in Slots :
        LET c == calls[s]
        IN  /\ c.op = "deleteParent" /\ c.status = "resolved"
            /\ c.arg.id \notin DOMAIN c.pre.parents
            /\ \E g \in DOMAIN parents :
                  EntriesOfGroup(entries, g) # {} /\ parents[g].totalExpenses > 0

----------------------------------------------------------------------------
(* the call is an entry mutation that leaves the parentId of its Entry *)
KeepsGroup(c) ==
    /\ c.op \in EntryOps
    /\ c.op \in {"updateEntry", "deleteEntry", "duplicateEntry"} => c.arg.id \in DOMAIN c.pre.entries
    /\ c.op = "updateEntry" =>
          \/ "parentId" \notin c.arg.updates.keys
          \/ c.arg.updates.parentId = c.pre.entries[c.arg.id].parentId

(* the Group the call is on *)
GroupOf(c) ==
    IF c.op = "createEntry" THEN c.arg.parentId ELSE c.pre.entries[c.arg.id].parentId

(* C23: createEntry, updateEntry that leaves parentId, deleteEntry and     *)
(* duplicateEntry on an Entry of Group g change that Entry alone, or add   *)
(* or remove it, and the totalExpenses of g: the id, name and createdAt of *)
(* g, every other Group, every other Entry and the Categories are what     *)
(* they were.  No other operation overlaps the call.                       *)
C23_EntryMutationTouchesOnlyItsOwn ==
    \A s \in Slots :
        LET c == calls[s]
            g == GroupOf(c)
            before == c.pre.entries
            added == DOMAIN entries \ DOMAIN before
            kept == DOMAIN entries \cap DOMAIN before
        IN  (KeepsGroup(c) /\ ~c.overlapped) =>
                /\ categories = c.pre.categories
                /\ DOMAIN parents = DOMAIN c.pre.parents
                /\ \A k \in DOMAIN parents :
                      /\ k # g => parents[k] = c.pre.parents[k]
                      /\ parents[k].id = c.pre.parents[k].id
                      /\ parents[k].name = c.pre.parents[k].name
                      /\ parents[k].createdAt = c.pre.parents[k].createdAt
                /\ c.op \in {"createEntry", "duplicateEntry"} =>
                      /\ Cardinality(added) <= 1
                      /\ DOMAIN before \subseteq DOMAIN entries
                      /\ \A k \in kept : entries[k] = before[k]
                      /\ \A k \in added : entries[k].parentId = g
                      /\ c.status = "resolved" => Cardinality(added) = 1
                /\ c.op = "updateEntry" =>
                      /\ DOMAIN entries = DOMAIN before
                      /\ \A k \in kept : k # c.arg.id => entries[k] = before[k]
                      /\ entries[c.arg.id].parentId = g
                /\ c.op = "deleteEntry" =>
                      /\ DOMAIN entries = DOMAIN before \ {c.arg.id}
                      /\ \A k \in kept : entries[k] = before[k]

(* an Entry was created in one of two Groups: the total of its Group has   *)
(* changed and the other Group is as it was                                *)
C23_Witness ==
    \E s \in Slots :
        LET c == calls[s]
            g == c.arg.parentId
        IN  /\ c.op = "createEntry" /\ c.status = "resolved"
            /\ g \in DOMAIN parents
            /\ parents[g].totalExpenses # c.pre.parents[g].totalExpenses
            /\ \E k \in DOMAIN parents : k # g

----------------------------------------------------------------------------
(* C24: from the empty store, under calls issued one at a time, where      *)
(* createEntry names a Group that exists and updateEntry leaves parentId,  *)
(* in every state between two calls the parentId of each Entry is the id   *)
(* of a Group of the store.                                                *)
C24_NoOrphans ==
    Quiet => \A k \in DOMAIN entries : entries[k].parentId \in DOMAIN parents

(* a Group that had Entries has been deleted and the call has resolved *)
C24_Witness ==
    /\ Quiet
    /\ \E s \in Slots :
          LET c == calls[s]
          IN  /\ c.op = "deleteParent" /\ c.status = "resolved"
              /\ c.arg.id \in DOMAIN c.pre.parents
              /\ EntriesOfGroup(c.pre.entries, c.arg.id) # {}

====
